---------------------------- MODULE Spec2Model ----------------------------
(***************************************************************************)
(* A model of dirserver (src/app.py, src/utils.py): the path sandbox of    *)
(* SafePathConverter, the archive routes (tar, opus_adder, TAR_FILTER) and *)
(* the routes that append a filename to a validated directory (opus,       *)
(* highlight).                                                             *)
(*                                                                         *)
(* A path is a sequence of component names, absolute from "/": the path    *)
(* /srv/data/a.txt is <<"srv", "data", "a.txt">>.  Strings are atoms in    *)
(* TLA+, so the two string tests the code makes on a name are tables over  *)
(* the names of the model: DotNames (str.startswith('.')) and NameOrder    *)
(* (the order sorted() gives).                                             *)
(***************************************************************************)
EXTENDS Naturals, Sequences, FiniteSets, TLC

VARIABLES
    base_path,       \* app.py:59, the resolved DIRSERVER_BASE_PATH
    exclude_hidden,  \* app.py:60
    cwd,             \* the working directory of the server process
    symlinks,        \* the symbolic links of the filesystem: path -> target
    unreadable,      \* the directories whose listing is denied
    route,           \* the handler that served the last request
    value,           \* the <safe_path:path> text of the request, as components
    status,          \* HTTP status of the last request (0: none yet)
    reason,          \* which check rejected it
    returned,        \* the path a converter or handler worked on
    phase,           \* archive stream: idle, streaming, done, aborted
    is_opus,         \* app.py:201
    dir_name,        \* the <path:dir_name> of the archive request
    work,            \* the suspended generator frames of tar.gen, front first
    out,             \* what the archive stream has emitted so far
    failed,          \* names of members spooled from an encoder that exited non-zero
    visited,         \* directories listed by the walk, in order
    run,             \* 1: first request, 2: the same request made again
    clock,           \* wall clock, one tick per request
    prev,            \* the stream of the first request, once it has ended
    proc,            \* the encoder subprocess of the standalone transcode
    pipe,            \* bytes in the pipe between the encoder and the response
    produced,        \* bytes the encoder has written so far
    reader_open,     \* the response still holds the read end of the pipe
    resp,            \* standalone response: none, streaming, ended
    touched          \* real files whose content a handler read, served or encoded

vars == <<base_path, exclude_hidden, cwd, symlinks, unreadable, route, value,
          status, reason, returned, phase, is_opus, dir_name, work, out, failed, visited,
          run, clock, prev, proc, pipe, produced, reader_open, resp, touched>>

fsVars == <<base_path, exclude_hidden, cwd, symlinks, unreadable>>
reqVars == <<route, value, status, reason, returned>>
tarVars == <<phase, is_opus, dir_name, work, out, failed, visited, run, clock, prev>>
procVars == <<proc, pipe, produced, reader_open, resp, touched>>
pipeVars == <<proc, pipe, produced, reader_open, resp>>

(***************************************************************************)
(* Bounds of the model.                                                    *)
(***************************************************************************)
\* longest candidate path of a request, in components
MaxCandLen == 3
\* symbolic links the kernel follows in one path lookup before ELOOP
MaxSymlinks == 2
\* capacity of the pipe between the encoder and the response
PipeCap == 2
\* length of the complete output of one encoder run
EncLen == 3

(***************************************************************************)
(* The filesystem.                                                         *)
(***************************************************************************)
None == <<"-none-">>

BasePaths == {<<"srv", "data">>, <<"srv", ".data">>}
Cwds == {<<"app">>, <<"opt", ".venv">>}

\* names that begin with '.': str.startswith('.') of app.py:80, 151, 193
DotNames == {".data", ".venv", ".hid", ".secret", ".x", ".x.opus"}
StartsWithDot(name) == name \in DotNames

Dirs == {<<>>, <<"srv">>, <<"etc">>, <<"app">>, <<"opt">>, <<"opt", ".venv">>,
         base_path, base_path \o <<"sub">>, base_path \o <<".hid">>}

Files == {base_path \o <<"a.txt">>, base_path \o <<".secret">>,
          base_path \o <<"z.txt">>, base_path \o <<"sub", "b.flac">>,
          base_path \o <<".hid", "v.txt">>,
          <<"etc", "passwd">>, <<"etc", "o.flac">>}

LinkPath == base_path \o <<"lnk">>
LinkTargets(base) == {<<"etc">>, <<"etc", "passwd">>, <<"etc", "o.flac">>, base,
                      base \o <<"sub">>, base \o <<".hid">>, base \o <<"lnk">>}
IsLink(p) == p \in DOMAIN symlinks

Parent(p) == IF p = <<>> THEN <<>> ELSE SubSeq(p, 1, Len(p) - 1)
Name(p) == p[Len(p)]
IsPrefix(a, b) == Len(a) <= Len(b) /\ SubSeq(b, 1, Len(a)) = a
\* base in p.parents: the strict ancestors of p
InParents(base, p) == Len(base) < Len(p) /\ IsPrefix(base, p)

(***************************************************************************)
(* Path.resolve() (os.path.realpath, non-strict): components are taken     *)
(* left to right, '..' pops the resolved prefix, a symbolic link is        *)
(* replaced by the resolution of its (absolute) target, a missing          *)
(* component is kept as written.  A link met again while it is being       *)
(* resolved is a loop (ok = FALSE).  hops counts the links followed.       *)
(***************************************************************************)
RECURSIVE JoinRealpath(_, _, _, _)
JoinRealpath(path, rest, inprog, hops) ==
    IF rest = <<>> THEN [path |-> path, ok |-> TRUE, hops |-> hops]
    ELSE LET name == Head(rest)
             tl == Tail(rest)
             newpath == Append(path, name)
         IN  IF name = "." THEN JoinRealpath(path, tl, inprog, hops)
             ELSE IF name = ".." THEN JoinRealpath(Parent(path), tl, inprog, hops)
             ELSE IF ~IsLink(newpath) THEN JoinRealpath(newpath, tl, inprog, hops)
             ELSE IF newpath \in inprog
                  THEN [path |-> newpath \o tl, ok |-> FALSE, hops |-> hops]
             ELSE LET r == JoinRealpath(<<>>, symlinks[newpath],
                                        inprog \cup {newpath}, hops + 1)
                  IN  IF ~r.ok
                      THEN [path |-> r.path \o tl, ok |-> FALSE, hops |-> r.hops]
                      ELSE JoinRealpath(r.path, tl, inprog, r.hops)

Resolve(p) == JoinRealpath(<<>>, p, {}, 0)


Exists(p) == p \in Dirs \cup Files

(***************************************************************************)
(* The path sandbox: ensure_beneath and SafePathConverter.to_python.       *)
(***************************************************************************)
Rejected(code, why) == [status |-> code, reason |-> why, path |-> None]
Accepted(p) == [status |-> 200, reason |-> "ok", path |-> p]

\* The fault of checking containment on the joined path as written.
ensure_beneath_unresolved(base, path) ==
    IF ~Resolve(base \o path).ok THEN Rejected(400, "MalformedPath")
    ELSE IF ~InParents(base, base \o path) THEN Rejected(403, "OutsideSandbox")
    ELSE Accepted(Resolve(base \o path).path)

\* app.py:62-71
ensure_beneath(base, path) ==
    LET resolved == Resolve(base \o path)
    IN  IF ~resolved.ok THEN Rejected(400, "MalformedPath")
        ELSE IF ~InParents(base, resolved.path) THEN Rejected(403, "OutsideSandbox")
        ELSE Accepted(resolved.path)

\* app.py:73
ensure_in_base_path(path) == ensure_beneath(base_path, path)

\* app.py:76-82; p.parts are the components of the absolute resolved path
to_python(v) ==
    LET p == ensure_in_base_path(v)
    IN  IF p.status # 200 THEN p
        ELSE IF ~Exists(p.path) THEN Rejected(404, "NotFound")
        ELSE IF exclude_hidden /\ \E i \in 1..Len(p.path) : StartsWithDot(p.path[i])
             THEN Rejected(403, "HiddenPathForbidden")
        ELSE p

(***************************************************************************)
(* Requests.                                                               *)
(***************************************************************************)
CandNames == {"..", "a.txt", "sub", "lnk", ".secret", ".hid", "b.flac", "passwd"}

RECURSIVE SeqsUpTo(_, _)
SeqsUpTo(S, n) ==
    IF n = 0 THEN {<<>>}
    ELSE LET shorter == SeqsUpTo(S, n - 1)
         IN  shorter \cup {Append(s, x) : s \in shorter, x \in S}

\* the converter's pattern matches a non-empty text
Candidates == SeqsUpTo(CandNames, MaxCandLen) \ {<<>>}

Symlinks(base) ==
    {<<>>} \cup {(base \o <<"lnk">>) :> t : t \in LinkTargets(base)}

InitFs ==
    /\ base_path \in BasePaths
    /\ exclude_hidden \in BOOLEAN
    /\ cwd \in Cwds
    /\ symlinks \in Symlinks(base_path)
    /\ unreadable \in {{}, {base_path \o <<"sub">>}}

InitReq ==
    /\ route = "none"
    /\ value = <<>>
    /\ status = 0
    /\ reason = "none"
    /\ returned = None

InitTar ==
    /\ phase = "idle"
    /\ is_opus = FALSE
    /\ dir_name = "none"
    /\ work = <<>>
    /\ out = <<>>
    /\ failed = {}
    /\ visited = <<>>
    /\ run = 1
    /\ clock = 1
    /\ prev = <<>>

InitProc ==
    /\ proc = "none"
    /\ pipe = 0
    /\ produced = 0
    /\ reader_open = FALSE
    /\ resp = "none"
    /\ touched = {}

(***************************************************************************)
(* The sandbox alone: the router converting the <safe_path:path> of a      *)
(* request (app.py:136, SafePathConverter.to_python).                      *)
(***************************************************************************)
ConvertPath(v) ==
    LET r == to_python(v)
    IN  /\ route = "none"
        /\ route' = "safe_path"
        /\ value' = v
        /\ status' = r.status
        /\ reason' = r.reason
        /\ returned' = r.path
        /\ UNCHANGED <<fsVars, tarVars, procVars>>

InitSandbox ==
    /\ InitFs
    /\ cwd = <<"app">>
    /\ unreadable = {}
    /\ InitReq /\ InitTar /\ InitProc

\* the request is over; the next one starts from nothing (no state is kept)
EndRequest ==
    /\ route # "none"
    /\ phase \in {"idle", "done", "aborted"}
    /\ resp \in {"none", "ended"}
    /\ route' = "none"
    /\ value' = <<>>
    /\ status' = 0
    /\ reason' = "none"
    /\ returned' = None
    /\ UNCHANGED <<fsVars, tarVars, procVars>>

NextSandbox ==
    \/ \E v \in Candidates : ConvertPath(v)
    \/ EndRequest

SpecSandbox == InitSandbox /\ [][NextSandbox]_vars

(***************************************************************************)
(* C1. Containment: the converter returns a path only if the fully         *)
(* resolved join of the root and the candidate has the root as a strict    *)
(* ancestor; the returned path is that resolved form, holds no symbolic    *)
(* link, and a candidate whose resolved form is not under the root is      *)
(* rejected with 403 OutsideSandbox.                                       *)
(***************************************************************************)
C1_Containment ==
    route = "safe_path" =>
        LET joined == base_path \o value
            r == Resolve(joined)
        IN  /\ status = 200 =>
                /\ r.ok
                /\ returned = r.path
                /\ InParents(base_path, returned)
                /\ \A i \in 1..Len(returned) : ~IsLink(SubSeq(returned, 1, i))
            /\ (r.ok /\ ~InParents(base_path, r.path)) =>
                /\ status = 403
                /\ reason = "OutsideSandbox"
                /\ returned = None

\* a candidate that stays under the root as written and leaves it through
\* the link in an intermediate component is rejected
C1_Witness ==
    /\ route = "safe_path"
    /\ value = <<"lnk", "passwd">>
    /\ LinkPath \in DOMAIN symlinks
    /\ symlinks[LinkPath] = <<"etc">>
    /\ status = 403
    /\ reason = "OutsideSandbox"

(***************************************************************************)
(* C2. Hidden-path policy on root-relative components only: with the       *)
(* policy on, an existing contained path is returned exactly when none of  *)
(* its components below the root begins with '.', whatever the components  *)
(* of the root are.                                                        *)
(***************************************************************************)
RootRelative(p) == SubSeq(p, Len(base_path) + 1, Len(p))

HiddenBelowRoot(p) ==
    \E i \in 1..Len(RootRelative(p)) : StartsWithDot(RootRelative(p)[i])

C2_HiddenRootRelative ==
    (route = "safe_path" /\ exclude_hidden) =>
        LET r == Resolve(base_path \o value)
        IN  (r.ok /\ InParents(base_path, r.path) /\ Exists(r.path)) =>
                /\ HiddenBelowRoot(r.path) =>
                       (status = 403 /\ reason = "HiddenPathForbidden")
                /\ ~HiddenBelowRoot(r.path) => (status = 200 /\ returned = r.path)


(***************************************************************************)
(* Files and directories as the archive routes see them.                   *)
(***************************************************************************)
\* the order sorted() gives the names of the model (code point order)
NameOrder == <<".hid", ".secret", "a.txt", "b.flac", "lnk", "o.flac", "passwd",
               "sub", "v.txt", "z.txt">>

\* the entries of the real directory d
Children(d) ==
    {Name(p) : p \in {q \in Dirs \cup Files \cup DOMAIN symlinks :
                         Len(q) = Len(d) + 1 /\ Parent(q) = d}}

\* sorted(path.iterdir()), app.py:226
SortedIterdir(path) ==
    LET names == Children(Resolve(path).path)
        sorted == SelectSeq(NameOrder, LAMBDA n : n \in names)
    IN  [i \in 1..Len(sorted) |-> Append(path, sorted[i])]

\* os.stat: follows links; the kernel gives up (ELOOP) after MaxSymlinks links
Stat(p) ==
    LET r == Resolve(p)
    IN  IF ~r.ok \/ r.hops > MaxSymlinks THEN "error"
        ELSE IF r.path \in Dirs THEN "dir"
        ELSE IF r.path \in Files THEN "file"
        ELSE "missing"

is_dir(p) == Stat(p) = "dir"
is_file(p) == Stat(p) = "file"

\* os.lstat: the last component is not followed
RealEntry(p) == Append(Resolve(Parent(p)).path, Name(p))
LType(p) ==
    IF IsLink(RealEntry(p)) THEN "symlink"
    ELSE IF RealEntry(p) \in Dirs THEN "dir"
    ELSE "file"

FileSize(real) == IF Name(real) = "a.txt" THEN 10 ELSE 4

\* the first AUDIO_BYTES_NEEDED bytes of a file: bytes 0-3 and bytes 8-11
Data(real) ==
    IF Name(real) \in {"b.flac", "o.flac"} THEN [head |-> "fLaC", tag |-> "...."]
    ELSE [head |-> "text", tag |-> "text"]

\* utils.py:22-28
mime_type_for_audio_data(data) ==
    IF data.head = "fLaC" THEN "audio/flac"
    ELSE IF data.head = "RIFF" /\ data.tag = "WAVE" THEN "audio/basic"
    ELSE IF data.head = "FORM" /\ data.tag = "AIFF" THEN "audio/x-aiff"
    ELSE "None"

\* utils.py:32-36; open() follows links and raises on a loop, a missing
\* file or a directory
path_is_opusenc_encodable(f) ==
    IF ~is_file(f) THEN "error"
    ELSE mime_type_for_audio_data(Data(Resolve(f).path))

\* Path.with_suffix('.opus')
with_suffix_opus(name) ==
    CASE name = "b.flac" -> "b.opus"
      [] name = "o.flac" -> "o.opus"
      [] name = "lnk" -> "lnk.opus"
      [] OTHER -> name

(***************************************************************************)
(* Archive members.  A member is what the header block and the content of  *)
(* one entry say: name, type, size, modification time, and where its       *)
(* content came from (origin: the real file; spooled: through the          *)
(* temporary file of an encoder run).                                      *)
(***************************************************************************)
\* TarFile.gettarinfo on a path of the tree: lstat of the file
TarInfo(p, arcname) ==
    [name |-> arcname, type |-> LType(p),
     size |-> IF LType(p) = "file" THEN FileSize(RealEntry(p)) ELSE 0,
     mtime |-> 0, origin |-> RealEntry(p), spooled |-> FALSE]

\* TarFile.gettarinfo on the temporary file opusenc wrote at time now
SpoolInfo(f, arcname, size, now) ==
    [name |-> arcname, type |-> "file", size |-> size, mtime |-> now,
     origin |-> Resolve(f).path, spooled |-> TRUE]

\* app.py:192-195; TRUE: the member is kept.  Path(tarinfo.name).resolve()
\* makes the relative name absolute from the working directory.
TAR_FILTER(tarinfo) ==
    LET parts == Resolve(cwd \o tarinfo.name).path
    IN  IF exclude_hidden
        THEN ~\E i \in 1..Len(parts) : StartsWithDot(parts[i])
        ELSE TRUE

\* what tar.add(..., filter=TAR_FILTER) emits for one entry that is not a
\* directory: the member, or nothing when the filter returns None
AddOne(tarinfo) == IF TAR_FILTER(tarinfo) THEN <<tarinfo>> ELSE <<>>

Frame(op, path, arc) == [op |-> op, path |-> path, arc |-> arc]

(***************************************************************************)
(* The archive routes, app.py:197-213.  The response body is the generator *)
(* gen(); each action below is one resumption of it, and work holds the    *)
(* frames still to run: a call of opus_adder, one iteration of its loop    *)
(* (entry), or a call of tar.add in plain mode (add).  tar.header() emits  *)
(* nothing in stream mode.                                                 *)
(***************************************************************************)
Stems == {"root", "root.opus", "sub", "sub.opus", ".x"}
\* request.path.endswith('.opus.tar'), app.py:201
OpusStems == {"root.opus", "sub.opus"}
StripOpus(stem) ==
    CASE stem = "root.opus" -> "root"
      [] stem = "sub.opus" -> "sub"
      [] OTHER -> stem

\* app.py:198-199: both rules match a URL that ends in .opus.tar, and which
\* one the router takes decides whether dir_name keeps the ".opus"
DirNamesFor(stem) == {stem, StripOpus(stem)}

ArchiveValues == {<<"sub">>, <<"a.txt">>, <<"lnk">>, <<".hid">>, <<"lnk", "..">>}

\* app.py:205-208
FirstFrame(path, opus, dn) ==
    IF opus THEN Frame("opus_adder", path, <<dn>>)
    ELSE Frame("add", path, IF path = base_path THEN <<>> ELSE <<dn>>)

StartTar(v, path, stem, dn) ==
    /\ route' = "tar"
    /\ value' = v
    /\ status' = 200
    /\ reason' = "ok"
    /\ returned' = path
    /\ phase' = "streaming"
    /\ is_opus' = (stem \in OpusStems)
    /\ dir_name' = dn
    /\ work' = <<FirstFrame(path, stem \in OpusStems, dn)>>
    /\ UNCHANGED <<out, failed, visited, run, clock, prev>>

\* app.py:197: /._tar/<path:dir_name>.tar, path defaults to base_path
TarRoot(stem) ==
    /\ route = "none"
    /\ phase = "idle"
    /\ StartTar(<<>>, base_path, stem, stem)
    /\ UNCHANGED <<fsVars, procVars>>

\* app.py:198-199: /<safe_path:path>/._tar/<path:dir_name>[.opus].tar
TarDir(v, stem, dn) ==
    /\ route = "none"
    /\ phase = "idle"
    /\ dn \in DirNamesFor(stem)
    /\ to_python(v).status = 200
    /\ StartTar(v, to_python(v).path, stem, dn)
    /\ UNCHANGED <<fsVars, procVars>>

\* the converter rejects the directory of an archive request
TarRejected(v) ==
    /\ route = "none"
    /\ phase = "idle"
    /\ to_python(v).status # 200
    /\ route' = "tar"
    /\ value' = v
    /\ status' = to_python(v).status
    /\ reason' = to_python(v).reason
    /\ returned' = None
    /\ UNCHANGED <<fsVars, tarVars, procVars>>

Streaming == phase = "streaming" /\ work # <<>>

\* an exception leaves the generator: the stream stops where it is
Abort(why) ==
    /\ phase' = "aborted"
    /\ reason' = why
    /\ work' = <<>>
    /\ UNCHANGED <<route, value, status, returned, is_opus, dir_name, out, failed,
                   visited, run, clock, prev>>

Emit(members, rest) ==
    /\ out' = out \o members
    /\ work' = rest
    /\ UNCHANGED <<reqVars, phase, is_opus, dir_name, failed, visited, run, clock, prev>>

\* app.py:222-224: the archived path is a file; arcname is not passed on,
\* so the member is named by the path itself
OpusAdderFile ==
    /\ Streaming
    /\ Head(work).op = "opus_adder"
    /\ is_file(Head(work).path)
    /\ Emit(AddOne(TarInfo(Head(work).path, Head(work).path)), Tail(work))
    /\ touched' = touched \cup {Resolve(Head(work).path).path}
    /\ UNCHANGED <<fsVars, pipeVars>>

\* app.py:226: the directory is listed, its entries are queued in order
OpusAdderList ==
    /\ Streaming
    /\ Head(work).op = "opus_adder"
    /\ ~is_file(Head(work).path)
    /\ Resolve(Head(work).path).path \notin unreadable
    /\ LET h == Head(work)
           fs == SortedIterdir(h.path)
       IN  work' = [i \in 1..Len(fs) |-> Frame("entry", fs[i], h.arc)] \o Tail(work)
    /\ visited' = Append(visited, Resolve(Head(work).path).path)
    /\ UNCHANGED <<fsVars, reqVars, phase, is_opus, dir_name, out, failed, run,
                   clock, prev, procVars>>

\* app.py:226: path.iterdir() raises PermissionError
OpusAdderDenied ==
    /\ Streaming
    /\ Head(work).op = "opus_adder"
    /\ ~is_file(Head(work).path)
    /\ Resolve(Head(work).path).path \in unreadable
    /\ Abort("PermissionError")
    /\ UNCHANGED <<fsVars, procVars>>

\* app.py:227-229: f.is_dir() follows links; recurse with arcname / f.name
EntryDir ==
    /\ Streaming
    /\ Head(work).op = "entry"
    /\ is_dir(Head(work).path)
    /\ LET h == Head(work)
       IN  work' = <<Frame("opus_adder", h.path, Append(h.arc, Name(h.path)))>>
                   \o Tail(work)
    /\ UNCHANGED <<fsVars, reqVars, phase, is_opus, dir_name, out, failed, visited,
                   run, clock, prev, procVars>>

\* app.py:231: open(f) raises (a link loop, too many links)
EntrySniffFails ==
    /\ Streaming
    /\ Head(work).op = "entry"
    /\ ~is_dir(Head(work).path)
    /\ path_is_opusenc_encodable(Head(work).path) = "error"
    /\ Abort("OSError")
    /\ UNCHANGED <<fsVars, procVars>>

\* app.py:231-233: not an audio file the encoder takes: added as it is
EntryPlain ==
    /\ Streaming
    /\ Head(work).op = "entry"
    /\ ~is_dir(Head(work).path)
    /\ path_is_opusenc_encodable(Head(work).path) = "None"
    /\ LET h == Head(work)
       IN  Emit(AddOne(TarInfo(h.path, Append(h.arc, Name(h.path)))), Tail(work))
    /\ touched' = touched \cup {Resolve(Head(work).path).path}
    /\ UNCHANGED <<fsVars, pipeVars>>

\* app.py:237: Popen raises, opusenc cannot be started
EntryLaunchFails ==
    /\ Streaming
    /\ Head(work).op = "entry"
    /\ ~is_dir(Head(work).path)
    /\ path_is_opusenc_encodable(Head(work).path) \notin {"None", "error"}
    /\ Abort("EncoderLaunchFailed")
    /\ touched' = touched \cup {Resolve(Head(work).path).path}
    /\ UNCHANGED <<fsVars, pipeVars>>

\* app.py:235-245: opusenc writes the temporary file, proc.wait() returns
\* its exit status, which is dropped, and the temporary file is added under
\* the name with the suffix .opus.  rc = 0: the file holds the complete
\* output; otherwise it holds the n bytes written before the failure.
EntryTranscode(rc, n) ==
    /\ Streaming
    /\ Head(work).op = "entry"
    /\ ~is_dir(Head(work).path)
    /\ path_is_opusenc_encodable(Head(work).path) \notin {"None", "error"}
    /\ rc = 0 => n = EncLen
    /\ rc # 0 => n < EncLen
    /\ LET h == Head(work)
           arcname == Append(h.arc, with_suffix_opus(Name(h.path)))
           members == AddOne(SpoolInfo(h.path, arcname, n, clock))
       IN  /\ out' = out \o members
           /\ failed' = IF rc # 0 /\ members # <<>> THEN failed \cup {arcname}
                        ELSE failed
    /\ work' = Tail(work)
    /\ touched' = touched \cup {Resolve(Head(work).path).path}
    /\ UNCHANGED <<fsVars, reqVars, phase, is_opus, dir_name, visited, run, clock,
                   prev, pipeVars>>

(***************************************************************************)
(* Plain mode, app.py:208: tar.add(path, arcname, filter=TAR_FILTER) of    *)
(* the tarfile_stream package, which is not part of the sources.  It is    *)
(* modelled as the walker and the encoder are specified: entries in sorted *)
(* order, an entry the filter excludes is skipped with all below it, a     *)
(* directory whose listing is denied is skipped, a directory is a header   *)
(* without content, a symbolic link is a leaf.                             *)
(***************************************************************************)
PlainAddSkip ==
    /\ Streaming
    /\ Head(work).op = "add"
    /\ LET h == Head(work)
       IN  \/ ~TAR_FILTER(TarInfo(h.path, h.arc))
           \/ LType(h.path) = "dir" /\ RealEntry(h.path) \in unreadable
    /\ Emit(<<>>, Tail(work))
    /\ UNCHANGED <<fsVars, procVars>>

PlainAddDir ==
    /\ Streaming
    /\ Head(work).op = "add"
    /\ LET h == Head(work)
           fs == SortedIterdir(h.path)
       IN  /\ TAR_FILTER(TarInfo(h.path, h.arc))
           /\ LType(h.path) = "dir"
           /\ RealEntry(h.path) \notin unreadable
           /\ out' = Append(out, TarInfo(h.path, h.arc))
           /\ work' = [i \in 1..Len(fs) |->
                          Frame("add", fs[i], Append(h.arc, Name(fs[i])))]
                      \o Tail(work)
           /\ visited' = Append(visited, RealEntry(h.path))
    /\ UNCHANGED <<fsVars, reqVars, phase, is_opus, dir_name, failed, run, clock,
                   prev, procVars>>

PlainAddLeaf ==
    /\ Streaming
    /\ Head(work).op = "add"
    /\ LET h == Head(work)
       IN  /\ TAR_FILTER(TarInfo(h.path, h.arc))
           /\ LType(h.path) # "dir"
           /\ Emit(<<TarInfo(h.path, h.arc)>>, Tail(work))
           /\ touched' = IF LType(h.path) = "file"
                         THEN touched \cup {RealEntry(h.path)}
                         ELSE touched
    /\ UNCHANGED <<fsVars, pipeVars>>

\* app.py:209: tar.footer(), the generator is exhausted
Footer ==
    /\ phase = "streaming"
    /\ work = <<>>
    /\ phase' = "done"
    /\ UNCHANGED <<fsVars, reqVars, is_opus, dir_name, work, out, failed, visited,
                   run, clock, prev, procVars>>

\* the same request again, later, on the unmodified tree
Repeat ==
    /\ phase \in {"done", "aborted"}
    /\ run = 1
    /\ prev' = [out |-> out, phase |-> phase, failed |-> failed]
    /\ run' = 2
    /\ clock' = clock + 1
    /\ phase' = "streaming"
    /\ reason' = "ok"
    /\ work' = <<FirstFrame(returned, is_opus, dir_name)>>
    /\ out' = <<>>
    /\ failed' = {}
    /\ visited' = <<>>
    /\ UNCHANGED <<fsVars, route, value, status, returned, is_opus, dir_name,
                   procVars>>

InitArchive ==
    /\ InitFs
    /\ base_path = <<"srv", "data">>
    /\ InitReq /\ InitTar /\ InitProc

NextArchive ==
    \/ \E stem \in Stems : TarRoot(stem)
    \/ \E v \in ArchiveValues, stem \in Stems, dn \in Stems : TarDir(v, stem, dn)
    \/ \E v \in ArchiveValues : TarRejected(v)
    \/ OpusAdderFile
    \/ OpusAdderList
    \/ OpusAdderDenied
    \/ EntryDir
    \/ EntrySniffFails
    \/ EntryPlain
    \/ EntryLaunchFails
    \/ \E rc \in {0, 1}, n \in 0..EncLen : EntryTranscode(rc, n)
    \/ PlainAddSkip
    \/ PlainAddDir
    \/ PlainAddLeaf
    \/ Footer
    \/ Repeat

SpecArchive == InitArchive /\ [][NextArchive]_vars

(***************************************************************************)
(* The routes that append a filename to a validated directory: opus        *)
(* (app.py:247-263) and highlight (app.py:275-313).  <filename> is one     *)
(* component; the directory is base_path or what to_python returned.       *)
(***************************************************************************)
FileNames == {"a.txt", ".secret", "lnk", "b.flac", "sub", "passwd"}
DirValues == {<<"sub">>, <<"lnk">>, <<".hid">>}

\* the directory of the request: <<>> stands for the route without
\* <safe_path:path>, whose path defaults to base_path
DirOf(v) == IF v = <<>> THEN Accepted(base_path) ELSE to_python(v)

\* highlight's size limit, 10 * 1000 ** 2
HIGHLIGHT_MAX == 10000000

Answer(name, v, code, why, path) ==
    /\ route' = name
    /\ value' = v
    /\ status' = code
    /\ reason' = why
    /\ returned' = path

\* the converter rejects the directory: no handler runs
AppendRejected(name, v) ==
    /\ route = "none"
    /\ DirOf(v).status # 200
    /\ Answer(name, v, DirOf(v).status, DirOf(v).reason, None)
    /\ UNCHANGED <<fsVars, tarVars, procVars>>

\* app.py:250-251: open(path) raises; FileNotFoundError is answered 404
\* (app.py:47), anything else 500
OpusSniffFails(v, filename) ==
    LET path == Append(DirOf(v).path, filename)
    IN  /\ route = "none"
        /\ DirOf(v).status = 200
        /\ path_is_opusenc_encodable(path) = "error"
        /\ Answer("opus", v, IF Stat(path) = "missing" THEN 404 ELSE 500,
                  "sniff", path)
        /\ UNCHANGED <<fsVars, tarVars, procVars>>

\* app.py:251-253 and 138-144: not encodable, the file is served as it is
OpusServeAsIs(v, filename) ==
    LET path == Append(DirOf(v).path, filename)
    IN  /\ route = "none"
        /\ DirOf(v).status = 200
        /\ path_is_opusenc_encodable(path) = "None"
        /\ Answer("opus", v, 200, "as is", path)
        /\ resp' = "ended"
        /\ touched' = touched \cup {Resolve(path).path}
        /\ UNCHANGED <<fsVars, tarVars, proc, pipe, produced, reader_open>>

\* app.py:254-263: the encoder is started with its output on a pipe and the
\* response body is the read end of the pipe; the handler returns, and the
\* Popen object goes with its frame
OpusTranscode(v, filename) ==
    LET path == Append(DirOf(v).path, filename)
    IN  /\ route = "none"
        /\ DirOf(v).status = 200
        /\ path_is_opusenc_encodable(path) \notin {"None", "error"}
        /\ Answer("opus", v, 200, "transcode", path)
        /\ proc' = "running"
        /\ pipe' = 0
        /\ produced' = 0
        /\ reader_open' = TRUE
        /\ resp' = "streaming"
        /\ touched' = touched \cup {Resolve(path).path}
        /\ UNCHANGED <<fsVars, tarVars>>

\* the encoder writes one more byte; it blocks while the pipe is full
EncoderWrite ==
    /\ proc = "running"
    /\ reader_open
    /\ produced < EncLen
    /\ pipe < PipeCap
    /\ produced' = produced + 1
    /\ pipe' = pipe + 1
    /\ UNCHANGED <<fsVars, reqVars, tarVars, proc, reader_open, resp, touched>>

\* the encoder writes to a pipe nobody reads: SIGPIPE ends it, unreaped
EncoderSigpipe ==
    /\ proc = "running"
    /\ ~reader_open
    /\ produced < EncLen
    /\ proc' = "zombie"
    /\ UNCHANGED <<fsVars, reqVars, tarVars, pipe, produced, reader_open, resp,
                   touched>>

\* the encoder exits: after its whole output, or earlier on a failure
EncoderExit(early) ==
    /\ proc = "running"
    /\ early \/ produced = EncLen
    /\ proc' = "zombie"
    /\ UNCHANGED <<fsVars, reqVars, tarVars, pipe, produced, reader_open, resp,
                   touched>>

\* the HTTP layer pulls the next chunk of encoder_proc.stdout
ResponseRead ==
    /\ resp = "streaming"
    /\ pipe > 0
    /\ pipe' = pipe - 1
    /\ UNCHANGED <<fsVars, reqVars, tarVars, proc, produced, reader_open, resp,
                   touched>>

\* end of file on the pipe: the body is exhausted and closed
ResponseEOF ==
    /\ resp = "streaming"
    /\ pipe = 0
    /\ proc = "zombie"
    /\ resp' = "ended"
    /\ reader_open' = FALSE
    /\ UNCHANGED <<fsVars, reqVars, tarVars, proc, pipe, produced, touched>>

\* the client goes away: the HTTP layer closes the body, which is the pipe;
\* nothing in opus() reacts
ClientDisconnect ==
    /\ resp = "streaming"
    /\ resp' = "ended"
    /\ reader_open' = FALSE
    /\ pipe' = 0
    /\ UNCHANGED <<fsVars, reqVars, tarVars, proc, produced, touched>>

\* a later Popen(...) in the same worker (app.py:237, 254): its constructor
\* polls the children of dropped Popen objects and reaps those that exited
LaterPopen ==
    /\ resp = "ended"
    /\ proc = "zombie"
    /\ proc' = "reaped"
    /\ UNCHANGED <<fsVars, reqVars, tarVars, pipe, produced, reader_open, resp,
                   touched>>

\* app.py:278-280
HighlightNotFile(v, filename) ==
    LET path == Append(DirOf(v).path, filename)
    IN  /\ route = "none"
        /\ DirOf(v).status = 200
        /\ ~is_file(path)
        /\ Answer("highlight", v, 404, "not a file", path)
        /\ UNCHANGED <<fsVars, tarVars, procVars>>

\* app.py:282-313: too large or not text: redirect to the raw file (302);
\* otherwise the text is rendered into the page
Highlight(v, filename) ==
    LET path == Append(DirOf(v).path, filename)
        real == Resolve(path).path
    IN  /\ route = "none"
        /\ DirOf(v).status = 200
        /\ is_file(path)
        /\ IF FileSize(real) > HIGHLIGHT_MAX
           THEN /\ Answer("highlight", v, 302, "too large", path)
                /\ UNCHANGED touched
           ELSE /\ touched' = touched \cup {real}
                /\ IF Data(real).head # "text"
                   THEN Answer("highlight", v, 302, "not text", path)
                   ELSE Answer("highlight", v, 200, "rendered", path)
        /\ UNCHANGED <<fsVars, tarVars, pipeVars>>

InitAppend ==
    /\ InitFs
    /\ cwd = <<"app">>
    /\ unreadable = {}
    /\ InitReq /\ InitTar /\ InitProc

NextAppend ==
    \/ \E v \in DirValues, name \in {"opus", "highlight"} : AppendRejected(name, v)
    \/ \E v \in DirValues \cup {<<>>}, f \in FileNames : OpusSniffFails(v, f)
    \/ \E v \in DirValues \cup {<<>>}, f \in FileNames : OpusServeAsIs(v, f)
    \/ \E v \in DirValues \cup {<<>>}, f \in FileNames : OpusTranscode(v, f)
    \/ EncoderWrite
    \/ EncoderSigpipe
    \/ \E early \in BOOLEAN : EncoderExit(early)
    \/ ResponseRead
    \/ ResponseEOF
    \/ ClientDisconnect
    \/ LaterPopen
    \/ \E v \in DirValues \cup {<<>>}, f \in FileNames : HighlightNotFile(v, f)
    \/ \E v \in DirValues \cup {<<>>}, f \in FileNames : Highlight(v, f)

SpecAppend == InitAppend /\ [][NextAppend]_vars

(***************************************************************************)
(* Statements about the archive stream.                                    *)
(***************************************************************************)
RelTo(root, p) == SubSeq(p, Len(root) + 1, Len(p))
HiddenIn(parts) == \E i \in 1..Len(parts) : StartsWithDot(parts[i])

\* the regular files of the tree under root that no hidden component hides
VisibleFiles(root) ==
    {f \in Files : IsPrefix(root, f) /\ ~HiddenIn(RelTo(root, f))}

HasMemberOf(f) == \E i \in 1..Len(out) : out[i].origin = f /\ out[i].type = "file"

\* a tree of plain files and directories, all readable
PlainTree == symlinks = <<>> /\ unreadable = {}

(***************************************************************************)
(* C3. Hidden-entry filter in archives: with the filter enabled, in both   *)
(* modes, a complete archive holds no member that is a hidden file or lies *)
(* under a hidden directory of the archived tree, and it holds every other *)
(* regular file of the tree; nothing but the components of a member's own  *)
(* path inside the tree decides.  (Stated for the transcoding walk, for    *)
(* trees without links and without unreadable directories, and a dir_name  *)
(* that is not hidden.)                                                    *)
(***************************************************************************)
C3_HiddenFilter ==
    (/\ route = "tar"
     /\ phase = "done"
     /\ is_opus
     /\ exclude_hidden
     /\ PlainTree
     /\ ~StartsWithDot(dir_name)) =>
        /\ \A i \in 1..Len(out) :
               IsPrefix(returned, out[i].origin) =>
                   ~HiddenIn(RelTo(returned, out[i].origin))
        /\ \A f \in VisibleFiles(returned) : HasMemberOf(f)

(***************************************************************************)
(* C4. Encoder failure is never silent: a stream that reaches the footer   *)
(* holds no member spooled from an encoder that exited non-zero.           *)
(***************************************************************************)
C4_EncoderFailureNotSilent ==
    (route = "tar" /\ phase = "done") => failed = {}

(***************************************************************************)
(* C6. Idempotence: the same archive request made again later on the       *)
(* unmodified tree emits the same members with the same header fields      *)
(* (both runs complete, every encoder run exiting zero).                   *)
(***************************************************************************)
C6_Idempotent ==
    (route = "tar" /\ run = 2 /\ phase = "done" /\ failed = {}) =>
        ((prev.phase = "done" /\ prev.failed = {}) => out = prev.out)

(***************************************************************************)
(* C7. Partial-failure walk: a directory under the archived root whose     *)
(* listing is denied does not abort the walk; the stream ends with the footer and holds every visible *)
(* regular file outside the unreadable subtree.  (Stated for trees         *)
(* without links, a working directory without hidden components and a     *)
(* dir_name that does not begin with '.'.)                                 *)
(***************************************************************************)
InUnreadable(f) == \E d \in unreadable : IsPrefix(d, f)

C7_UnreadableSubtreeSkipped ==
    (/\ route = "tar"
     /\ phase \in {"done", "aborted"}
     /\ \E d \in unreadable : InParents(returned, d)
     /\ symlinks = <<>>
     /\ cwd = <<"app">>
     /\ ~StartsWithDot(dir_name)
     /\ reason # "EncoderLaunchFailed") =>
        /\ phase = "done"
        /\ \A f \in VisibleFiles(returned) : ~InUnreadable(f) => HasMemberOf(f)

(***************************************************************************)
(* C8. Archive base name: in a complete archive of the root every member   *)
(* is named by the root-relative path of its file (with the suffix .opus   *)
(* when transcoded, its size the encoder's full output length); in a       *)
(* complete archive of another directory every member lies under the one   *)
(* top-level directory dir_name.  (Stated for trees without links.)        *)
(***************************************************************************)
ExpectedName(m) ==
    LET rel == RelTo(base_path, m.origin)
    IN  IF m.spooled
        THEN Append(SubSeq(rel, 1, Len(rel) - 1), with_suffix_opus(rel[Len(rel)]))
        ELSE rel

C8_BaseName ==
    (route = "tar" /\ phase = "done" /\ symlinks = <<>> /\ failed = {}) =>
        /\ returned = base_path =>
               \A i \in 1..Len(out) :
                   /\ out[i].name = ExpectedName(out[i])
                   /\ out[i].spooled => out[i].size = EncLen
        /\ (returned # base_path /\ returned \in Dirs) =>
               \A i \in 1..Len(out) :
                   Len(out[i].name) >= 1 /\ out[i].name[1] = dir_name

(***************************************************************************)
(* C9. Symbolic links during composition: the walk lists no real directory *)
(* twice, and it neither reads (sniffs, transcodes) nor emits the content  *)
(* of a file whose resolved path is not under the root.                    *)
(***************************************************************************)
NoDuplicates(seq) == \A i, j \in 1..Len(seq) : seq[i] = seq[j] => i = j

C9_SymlinksAreLeaves ==
    route = "tar" =>
        /\ NoDuplicates(visited)
        /\ \A p \in touched : InParents(base_path, p)
        /\ \A i \in 1..Len(out) :
               out[i].type = "file" => InParents(base_path, out[i].origin)

(***************************************************************************)
(* Statements about the routes that append a filename.                     *)
(***************************************************************************)

(***************************************************************************)
(* C5. Subprocess reclamation: once the response of a standalone transcode *)
(* has ended (drained, or the client gone), its encoder subprocess is      *)
(* neither running nor a zombie.                                           *)
(***************************************************************************)
C5_SubprocessReclaimed ==
    (route = "opus" /\ resp = "ended") => proc \in {"none", "reaped"}

(***************************************************************************)
(* C10. Validation of the appended filename: every file whose content the  *)
(* opus or highlight route reads, serves or hands to the encoder resolves  *)
(* strictly under the root and, with the hidden-path policy on, has no     *)
(* root-relative component that begins with '.'.                           *)
(***************************************************************************)
C10_AppendedFilenameValidated ==
    route \in {"opus", "highlight"} =>
        \A p \in touched :
            /\ InParents(base_path, p)
            /\ exclude_hidden => ~HiddenBelowRoot(p)

=============================================================================
